---- MODULE Spec2Model ----
(***************************************************************************)
(* Acts::FullBilloirVertexFitter::fit                                      *)
(* (Core/include/Acts/Vertexing/FullBilloirVertexFitter.ipp) as a state    *)
(* machine.  One call of fit is a stack frame (frame[c]) that walks the    *)
(* iteration loop of the function; the fitter instance holds only its      *)
(* configuration (m_cfg); the linearization collaborator                   *)
(* (LinearizedTrackFactory::linearizeTrack) answers from a set of          *)
(* linear expansions or fails.                                             *)
(*                                                                         *)
(* Numbers.  A double is modelled as an exact rational <<n, d>> with       *)
(* d > 0 in lowest terms; <<0, 0>> stands for every non-finite double      *)
(* (inf, -inf, NaN), which is what Eigen's inverse() of a singular matrix  *)
(* yields (a division by a zero determinant) and which every further       *)
(* +, -, * propagates.  Angles are measured in units of pi / M_PI.         *)
(***************************************************************************)
EXTENDS Integers, Sequences, FiniteSets, TLC

(***************************************************************************)
(* Bounds of the model.                                                    *)
(***************************************************************************)
MaxTracks == 2
MaxIterations == 2
MaxTracksTwo == 1
MaxIterationsTwo == 1
AngleRange == 10
MaxTracksLong == 1
MaxIterationsLong == 3

(***************************************************************************)
(* double arithmetic                                                       *)
(***************************************************************************)
\* std::numeric_limits<double>::max(): the largest finite double.  The model
\* scales the range of double down to [-DBL_MAX, DBL_MAX]; a result beyond
\* it overflows to a non-finite value.
DBL_MAX == 1000

NonFinite == <<0, 0>>
Zero == <<0, 1>>
One == <<1, 1>>
R(n) == <<n, 1>>
IsFinite(a) == a[2] # 0

Abs(n) == IF n < 0 THEN -n ELSE n

RECURSIVE GCD(_, _)
GCD(a, b) == IF b = 0 THEN a ELSE GCD(b, a % b)

Norm(n, d) ==
  IF d = 0 THEN NonFinite
  ELSE IF n = 0 THEN Zero
  ELSE IF d = 1 THEN <<n, 1>>
  ELSE LET g == GCD(Abs(n), Abs(d))
           s == IF d < 0 THEN -1 ELSE 1
       IN <<(s * n) \div g, (s * d) \div g>>

\* a result of +, *, /: beyond DBL_MAX it is +-inf
Overflow(a) == IF Abs(a[1]) > DBL_MAX * a[2] THEN NonFinite ELSE a

Add(a, b) ==
  IF a[2] = 0 \/ b[2] = 0 THEN NonFinite
  ELSE IF a[1] = 0 THEN b
  ELSE IF b[1] = 0 THEN a
  ELSE IF a[2] = 1 /\ b[2] = 1 THEN Overflow(<<a[1] + b[1], 1>>)
  ELSE Overflow(Norm(a[1] * b[2] + b[1] * a[2], a[2] * b[2]))

Neg(a) == <<-a[1], a[2]>>

Sub(a, b) == Add(a, Neg(b))

Mul(a, b) ==
  IF a[2] = 0 \/ b[2] = 0 THEN NonFinite
  ELSE IF a[1] = 0 \/ b[1] = 0 THEN Zero
  ELSE IF a[2] = 1 /\ b[2] = 1 THEN Overflow(<<a[1] * b[1], 1>>)
  ELSE Overflow(Norm(a[1] * b[1], a[2] * b[2]))

\* a / b; a zero divisor gives a non-finite double
Div(a, b) ==
  IF a[2] = 0 \/ b[2] = 0 \/ b[1] = 0 THEN NonFinite
  ELSE Overflow(Norm(a[1] * b[2], a[2] * b[1]))

\* a < b on doubles: false as soon as one side is NaN
Less(a, b) == IsFinite(a) /\ IsFinite(b) /\ a[1] * b[2] < b[1] * a[2]

AbsR(a) == <<Abs(a[1]), a[2]>>

\* std::fmod(a, m) for a finite m > 0: a - trunc(a / m) * m, the sign of a
Fmod(a, m) ==
  IF ~IsFinite(a) THEN NonFinite
  ELSE LET num == Abs(a[1]) * m[2]
           den == a[2] * m[1]
           q   == num \div den
           r   == Sub(AbsR(a), Mul(R(q), m))
       IN IF a[1] < 0 THEN Neg(r) ELSE r

(***************************************************************************)
(* Eigen vectors and matrices: a vector is a sequence of doubles, a matrix *)
(* a sequence of rows.                                                     *)
(***************************************************************************)
\* a sequence given as a function over 1..n, as a tuple
Tup(f) == f \o <<>>

RECURSIVE DotTo(_, _, _)
DotTo(u, v, k) ==
  IF k = 0 THEN Zero ELSE Add(DotTo(u, v, k - 1), Mul(u[k], v[k]))

Dot(u, v) == DotTo(u, v, Len(u))

Rows(A) == Len(A)
Cols(A) == Len(A[1])
Col(A, j) == Tup([i \in 1..Rows(A) |-> A[i][j]])
Transpose(A) == Tup([j \in 1..Cols(A) |-> Col(A, j)])

MatMul(A, B) ==
  LET Bt == Transpose(B)
  IN Tup([i \in 1..Rows(A) |-> Tup([j \in 1..Cols(B) |-> Dot(A[i], Bt[j])])])

MatVec(A, v) == Tup([i \in 1..Rows(A) |-> Dot(A[i], v)])

MatAdd(A, B) ==
  Tup([i \in 1..Rows(A) |-> Tup([j \in 1..Cols(A) |-> Add(A[i][j], B[i][j])])])

MatSub(A, B) ==
  Tup([i \in 1..Rows(A) |-> Tup([j \in 1..Cols(A) |-> Sub(A[i][j], B[i][j])])])

MatNeg(A) == Tup([i \in 1..Rows(A) |-> Tup([j \in 1..Cols(A) |-> Neg(A[i][j])])])

VecAdd(u, v) == Tup([i \in 1..Len(u) |-> Add(u[i], v[i])])
VecSub(u, v) == Tup([i \in 1..Len(u) |-> Sub(u[i], v[i])])

ZeroVec(n) == Tup([i \in 1..n |-> Zero])
ZeroMat(n, m) == Tup([i \in 1..n |-> Tup([j \in 1..m |-> Zero])])
Diag(v) == Tup([i \in 1..Len(v) |-> Tup([j \in 1..Len(v) |-> IF i = j THEN v[i] ELSE Zero])])

Trace(A) == DotTo(Tup([i \in 1..Rows(A) |-> A[i][i]]), Tup([i \in 1..Rows(A) |-> One]), Rows(A))

VecFinite(v) == \A i \in 1..Len(v) : IsFinite(v[i])
MatFinite(A) == \A i \in 1..Rows(A) : VecFinite(A[i])

Drop(s, k) == Tup([i \in 1..(Len(s) - 1) |-> IF i < k THEN s[i] ELSE s[i + 1]])
Minor(A, r, c) ==
  Tup([i \in 1..(Rows(A) - 1) |-> Drop(A[IF i < r THEN i ELSE i + 1], c)])

RECURSIVE Det(_)
RECURSIVE DetTo(_, _)
DetTo(A, j) ==
  IF j = 0 THEN Zero
  ELSE LET rest == DetTo(A, j - 1)
           a    == A[1][j]
       IN IF a = Zero THEN rest
          ELSE LET t == Mul(a, Det(Minor(A, 1, j)))
               IN Add(rest, IF j % 2 = 1 THEN t ELSE Neg(t))

Det(A) == IF Rows(A) = 1 THEN A[1][1] ELSE DetTo(A, Cols(A))

\* Eigen's inverse(): cofactors over the determinant.  Of a singular matrix
\* it divides by zero, so that every coefficient is non-finite; it raises
\* no error.
Inverse(A) ==
  LET d == Det(A)
      n == Rows(A)
  IN IF d = Zero \/ ~IsFinite(d)
     THEN Tup([i \in 1..n |-> Tup([j \in 1..n |-> NonFinite])])
     ELSE Tup([i \in 1..n |-> Tup([j \in 1..n |->
             LET cf == Det(Minor(A, j, i))
             IN Div(IF (i + j) % 2 = 0 THEN cf ELSE Neg(cf), d)])])

\* v^T * A * v, the [0] coefficient of the 1x1 product
Quad(v, A) == Dot(v, MatVec(A, v))

(***************************************************************************)
(* Program constants                                                       *)
(***************************************************************************)
\* M_PI, in angle units: angles are exact rational multiples of pi
M_PI == 4
PI == R(M_PI)
TWO_PI == R(2 * M_PI)

\* ParID_t, one-based
eLOC_D0 == 1
eLOC_Z0 == 2
ePHI == 3
eTHETA == 4
eQOP == 5

Vec(s) == Tup([i \in 1..Len(s) |-> R(s[i])])
Mat(rows) == Tup([i \in 1..Len(rows) |-> Vec(rows[i])])

(***************************************************************************)
(* Inputs: tracks and vertex constraints                                   *)
(***************************************************************************)
\* an InputTrack; extractParameters gives its bound parameters
\* (d0, z0, phi, theta, q/p)
FirstTrack == [parameters |-> Vec(<<0, 0, 1, 1, 1>>)]

InputTracks == { FirstTrack, [parameters |-> Vec(<<0, 0, 3, 2, -1>>)] }

RECURSIVE SeqsUpTo(_, _)
SeqsUpTo(S, n) ==
  IF n = 0 THEN {<<>>}
  ELSE LET shorter == SeqsUpTo(S, n - 1)
       IN shorter \cup {Append(s, x) : s \in {t \in shorter : Len(t) = n - 1}, x \in S}

TrackLists(n) == SeqsUpTo(InputTracks, n)

\* Vertex<InputTrack>: position, covariance, fit quality and the tracks at the
\* vertex
Vertex(pos, cov, chisq, dof, tracks) ==
  [position |-> pos, covariance |-> cov, chi2 |-> chisq, ndf |-> dof,
   tracksAtVertex |-> tracks]

\* Vertex<InputTrack>(Vector3D(0., 0., 0.)) and the default-constructed Vertex:
\* at the origin, zero covariance, no tracks, no fit quality
DefaultVertex == Vertex(ZeroVec(3), ZeroMat(3, 3), Zero, 0, <<>>)

ConstraintAt(pos, cov) == Vertex(pos, cov, Zero, 0, <<>>)

\* the constraint argument: none (the default Vertex); a beam spot with unit
\* covariance; a position with zero covariance; a covariance with non-zero
\* trace that is singular
BeamConstraint == ConstraintAt(Vec(<<1, 0, 0>>), Diag(Vec(<<1, 1, 1>>)))

Constraints ==
  { DefaultVertex,
    BeamConstraint,
    ConstraintAt(Vec(<<1, 0, 0>>), ZeroMat(3, 3)),
    ConstraintAt(Vec(<<0, 0, 0>>), Diag(Vec(<<1, 0, 0>>))) }

(***************************************************************************)
(* The linearization collaborator: LinearizedTrackFactory::linearizeTrack  *)
(***************************************************************************)
LinearizedTrack(par, cov, D, E) ==
  [parametersAtPCA |-> par, covarianceAtPCA |-> cov,
   positionJacobian |-> D, momentumJacobian |-> E]

\* momentum jacobian: phi, theta, q/p pass through
Emom == Mat(<< <<0, 0, 0>>, <<0, 0, 0>>, <<1, 0, 0>>, <<0, 1, 0>>, <<0, 0, 1>> >>)
\* momentum jacobian with no dependence on q/p: Et * W * E is singular
Esing == Mat(<< <<0, 0, 0>>, <<0, 0, 0>>, <<1, 0, 0>>, <<0, 1, 0>>, <<0, 0, 0>> >>)
\* position jacobians: d0 measures x (or y), z0 measures z
Dx == Mat(<< <<1, 0, 0>>, <<0, 0, 1>>, <<0, 0, 0>>, <<0, 0, 0>>, <<0, 0, 0>> >>)
Dy == Mat(<< <<0, 1, 0>>, <<0, 0, 1>>, <<0, 0, 0>>, <<0, 0, 0>>, <<0, 0, 0>> >>)
\* as Dx, and phi depends on x too
Dxphi == Mat(<< <<1, 0, 0>>, <<0, 0, 1>>, <<1, 0, 0>>, <<0, 0, 0>>, <<0, 0, 0>> >>)

Cov1 == Diag(Vec(<<1, 1, 1, 1, 1>>))
Cov2 == Diag(Vec(<<2, 2, 2, 2, 2>>))

\* the linear expansions the collaborator may answer with
LinearizationAnswers ==
  { LinearizedTrack(Vec(<<1, 0, M_PI + 1, 1, 1>>), Cov1, Dx, Emom),
    LinearizedTrack(Vec(<<0, 2, -M_PI, 1, -1>>), Cov2, Dy, Emom),
    LinearizedTrack(Vec(<<-1, 1, 1, -1, 2>>), Cov1, Dxphi, Emom),
    LinearizedTrack(Vec(<<0, 1, 2, 2, 1>>), Cov1, Dy, Esing) }

\* a linear expansion far from the reference point: with the beam constraint
\* of unit covariance the fit of this one track has the chi2
\* (d0^2 + z0^2) / 2 = DBL_MAX, the largest finite double
FarAnswer == LinearizedTrack(Vec(<<20, 40, 1, 1, 1>>), Cov1, Dx, Emom)

\* no linear expansion exists at the reference point
PropagationFailure == [failure |-> "PropagationFailure"]

(***************************************************************************)
(* The computations of fit, in the order of the source                     *)
(***************************************************************************)
\* ndf without the nTracks < 2 case
NdfNoSingleTrackCase(nTracks, isConstraintFit) ==
  IF isConstraintFit THEN 2 * nTracks - 3 + 3 ELSE 2 * nTracks - 3

\* int ndf = 2 * nTracks - 3, an unsigned product converted to int (for
\* nTracks = 1 the unsigned difference wraps and converts back to -1);
\* 1 below two tracks; 3 more in a constraint fit
Ndf(nTracks, isConstraintFit) ==
  LET ndf0 == 2 * nTracks - 3
      ndf1 == IF nTracks < 2 THEN 1 ELSE ndf0
  IN IF isConstraintFit THEN ndf1 + 3 ELSE ndf1

\* a constraint counted as active as soon as one is given
IsConstraintGiven(constraint) == constraint # DefaultVertex

\* constraint.covariance().trace() != 0
IsConstraintFit(constraint) == Trace(constraint.covariance) # Zero

\* BilloirVertex(): the sums of one iteration, zeroed
BilloirVertex ==
  [Amat |-> ZeroMat(3, 3), Tvec |-> ZeroVec(3),
   BCBmat |-> ZeroMat(3, 3), BCUvec |-> ZeroVec(3)]

\* Vector3D(phi, theta, qop) of the track's own parameters
InitialMomentum(trackContainer) ==
  << trackContainer.parameters[ePHI], trackContainer.parameters[eTHETA],
     trackContainer.parameters[eQOP] >>

\* deltaQ with all five components as linearized, compared to zero
DeltaQAgainstZero(linTrack, momentum) ==
  << linTrack.parametersAtPCA[eLOC_D0],
     linTrack.parametersAtPCA[eLOC_Z0],
     linTrack.parametersAtPCA[ePHI],
     linTrack.parametersAtPCA[eTHETA],
     linTrack.parametersAtPCA[eQOP] >>

\* deltaQ: d0 and z0 as linearized, the angles and q/p against the running
\* momentum estimate
DeltaQ(linTrack, momentum) ==
  << linTrack.parametersAtPCA[eLOC_D0],
     linTrack.parametersAtPCA[eLOC_Z0],
     Sub(linTrack.parametersAtPCA[ePHI], momentum[1]),
     Sub(linTrack.parametersAtPCA[eTHETA], momentum[2]),
     Sub(linTrack.parametersAtPCA[eQOP], momentum[3]) >>

\* Dmat.transpose() * covarianceAtPCA.inverse()
DtW(linTrack) ==
  MatMul(Transpose(linTrack.positionJacobian), Inverse(linTrack.covarianceAtPCA))

\* the BilloirTrack of one track; linTrack (the member) is the address of the
\* loop's local LinearizedTrack, chi2 is set by the second loop
BilloirTrack(trackContainer, linTrack, momentum) ==
  LET Dmat   == linTrack.positionJacobian
      Emat   == linTrack.momentumJacobian
      Wmat   == Inverse(linTrack.covarianceAtPCA)
      DtWmat == MatMul(Transpose(Dmat), Wmat)
      EtWmat == MatMul(Transpose(Emat), Wmat)
      deltaQ == DeltaQ(linTrack, momentum)
      GiMat  == MatMul(EtWmat, Emat)
      BiMat  == MatMul(DtWmat, Emat)
      CiInv  == Inverse(GiMat)
  IN [originalTrack |-> trackContainer,
      linTrack |-> "&linTrack",
      chi2 |-> Zero,
      DiMat |-> Dmat,
      EiMat |-> Emat,
      GiMat |-> GiMat,
      BiMat |-> BiMat,
      CiInv |-> CiInv,
      UiVec |-> MatVec(EtWmat, deltaQ),
      BCiMat |-> MatMul(BiMat, CiInv),
      deltaQ |-> deltaQ]

\* sum up over all tracks
Accumulate(bv, bTrack, linTrack) ==
  LET DtWmat == DtW(linTrack)
  IN [Tvec   |-> VecAdd(bv.Tvec, MatVec(DtWmat, bTrack.deltaQ)),
      Amat   |-> MatAdd(bv.Amat, MatMul(DtWmat, linTrack.positionJacobian)),
      BCUvec |-> VecAdd(bv.BCUvec, MatVec(bTrack.BCiMat, bTrack.UiVec)),
      BCBmat |-> MatAdd(bv.BCBmat, MatMul(bTrack.BCiMat, Transpose(bTrack.BiMat)))]

\* the constraint's position taken as its offset, whatever the linPoint
ConstraintPosInGlobalFrame(constraint, linPoint) == constraint.position

\* constraint.position() - linPoint
ConstraintPosInBilloirFrame(constraint, linPoint) ==
  VecSub(constraint.position, linPoint)

\* Vdel = T - sum{Bi*Ci^-1*Ui}, plus the constraint's term
VdelOf(bv, isConstraintFit, constraint, linPoint) ==
  LET Vdel == VecSub(bv.Tvec, bv.BCUvec)
  IN IF isConstraintFit
     THEN VecAdd(Vdel, MatVec(Inverse(constraint.covariance),
                              ConstraintPosInBilloirFrame(constraint, linPoint)))
     ELSE Vdel

\* VwgtMat = A - sum{Bi*Ci^-1*Bi.T}, plus the constraint's weight
VwgtMatOf(bv, isConstraintFit, constraint) ==
  LET VwgtMat == MatSub(bv.Amat, bv.BCBmat)
  IN IF isConstraintFit
     THEN MatAdd(VwgtMat, Inverse(constraint.covariance))
     ELSE VwgtMat

\* deltaP = CiInv * (UiVec - BiMat.transpose() * deltaV)
DeltaP(bTrack, deltaV) ==
  MatVec(bTrack.CiInv,
         VecSub(bTrack.UiVec, MatVec(Transpose(bTrack.BiMat), deltaV)))

\* a momentum left as it was
KeepMomentum(momentum, deltaP) == momentum

\* trackMomenta[iTrack] += deltaP
AddMomentum(momentum, deltaP) == VecAdd(momentum, deltaP)

\* tmpPhi > M_PI ? tmpPhi - 2 * M_PI : tmpPhi
RewrapPhi(tmpPhi) == IF Less(PI, tmpPhi) THEN Sub(tmpPhi, TWO_PI) ELSE tmpPhi

\* PeriodicityCorrection without tmpPhi += M_PI where theta is negated
PeriodicityCorrectionNoFlip(momentum) ==
  LET phi0 == Fmod(momentum[1], TWO_PI)
      phi1 == IF Less(PI, phi0) THEN Sub(phi0, TWO_PI) ELSE phi0
      phi2 == IF Less(phi1, Neg(PI)) /\ Less(Neg(TWO_PI), phi1)
              THEN Add(phi1, TWO_PI) ELSE phi1
      tht0 == Fmod(momentum[2], TWO_PI)
      tht1 == IF Less(tht0, Neg(PI)) THEN AbsR(Add(tht0, TWO_PI))
              ELSE IF Less(tht0, Zero) THEN Neg(tht0)
              ELSE tht0
      tht2 == IF Less(PI, tht1) THEN Sub(TWO_PI, tht1) ELSE tht1
      phi4 == IF Less(PI, tht1) THEN RewrapPhi(Add(phi2, PI)) ELSE phi2
  IN << phi4, tht2, momentum[3] >>

\* correct for 2PI / PI periodicity: tmpPhi and tmpTht of the momentum (and
\* its q/p, which the correction does not touch)
PeriodicityCorrection(momentum) ==
  LET phi0 == Fmod(momentum[1], TWO_PI)
      phi1 == IF Less(PI, phi0) THEN Sub(phi0, TWO_PI) ELSE phi0
      phi2 == IF Less(phi1, Neg(PI)) /\ Less(Neg(TWO_PI), phi1)
              THEN Add(phi1, TWO_PI) ELSE phi1
      tht0 == Fmod(momentum[2], TWO_PI)
      \* if (tmpTht < -M_PI) ... else if (tmpTht < 0) ...
      tht1 == IF Less(tht0, Neg(PI)) THEN AbsR(Add(tht0, TWO_PI))
              ELSE IF Less(tht0, Zero) THEN Neg(tht0)
              ELSE tht0
      phi3 == IF ~Less(tht0, Neg(PI)) /\ Less(tht0, Zero)
              THEN RewrapPhi(Add(phi2, PI)) ELSE phi2
      \* if (tmpTht > M_PI)
      tht2 == IF Less(PI, tht1) THEN Sub(TWO_PI, tht1) ELSE tht1
      phi4 == IF Less(PI, tht1) THEN RewrapPhi(Add(phi3, PI)) ELSE phi3
  IN << phi4, tht2, momentum[3] >>

\* d(d0,z0,phi,theta,qOverP)/d(x,y,z,phi,theta,qOverP)
TransMat(DiMat) ==
  << << DiMat[1][1], DiMat[1][2], Zero, Zero, Zero, Zero >>,
     << DiMat[2][1], DiMat[2][2], One, Zero, Zero, Zero >>,
     << Zero, Zero, Zero, One, Zero, Zero >>,
     << Zero, Zero, Zero, Zero, One, Zero >>,
     << Zero, Zero, Zero, Zero, Zero, One >> >>

\* the 6x6 matrix of the blocks VV, VP, VP^T, PP
BlockMat(VVmat, VPmat, PPmat) ==
  Tup([i \in 1..6 |-> Tup([j \in 1..6 |->
     IF i <= 3 /\ j <= 3 THEN VVmat[i][j]
     ELSE IF i <= 3 THEN VPmat[i][j - 3]
     ELSE IF j <= 3 THEN VPmat[j][i - 3]
     ELSE PPmat[i - 3][j - 3]])])

\* covDeltaPmat[iTrack] = transMat * covMat * transMat.transpose()
CovDeltaP(bTrack, covDeltaVmat) ==
  LET transMat == TransMat(bTrack.DiMat)
      VVmat == covDeltaVmat
      VPmat == MatMul(MatMul(MatNeg(covDeltaVmat), bTrack.GiMat), bTrack.CiInv)
      PPmat == MatAdd(bTrack.CiInv,
                      MatMul(MatMul(Transpose(bTrack.BCiMat), covDeltaVmat),
                             bTrack.BCiMat))
      covMat == BlockMat(VVmat, VPmat, PPmat)
  IN MatMul(MatMul(transMat, covMat), Transpose(transMat))

\* deltaQ - DiMat * deltaV - EiMat * deltaP
Residual(bTrack, deltaV, deltaP) ==
  VecSub(VecSub(bTrack.deltaQ, MatVec(bTrack.DiMat, deltaV)),
         MatVec(bTrack.EiMat, deltaP))

\* chi2 per track, with the covariance that bTrack.linTrack->covarianceAtPCA
\* reads
TrackChi2(bTrack, deltaV, deltaP, covarianceAtPCA) ==
  Quad(Residual(bTrack, deltaV, deltaP), Inverse(covarianceAtPCA))

\* deltaTrk = deltaV - (constraint.position() - linPoint), and its chi2
ConstraintChi2(constraint, linPoint, deltaV) ==
  LET deltaTrk == VecSub(deltaV, ConstraintPosInBilloirFrame(constraint, linPoint))
  IN Quad(deltaTrk, Inverse(constraint.covariance))

\* every iteration replaces the vertex
AlwaysImproves(newChi2, chi2) == TRUE

\* newChi2 <= chi2: an equal chi2 replaces the vertex too
ImprovesOrEquals(newChi2, chi2) == Less(newChi2, chi2) \/ newChi2 = chi2

\* newChi2 < chi2
Improves(newChi2, chi2) == Less(newChi2, chi2)

\* BoundParameters(covDeltaPmat[iTrack], paramVec, perigee) in a TrackAtVertex
TrackAtVertex(bTrack, momentum, covDeltaP, vertexPos) ==
  [chi2Track |-> bTrack.chi2,
   fittedParams |-> [parameters |-> << Zero, Zero, momentum[1], momentum[2], momentum[3] >>,
                     covariance |-> covDeltaP,
                     referenceSurface |-> [perigee |-> vertexPos]],
   originalTrack |-> bTrack.originalTrack]

\* the tracksAtVertex of a materialization, one per BilloirTrack in order
TracksAtVertex(billoirTracks, trackMomenta, covDeltaPmat, vertexPos) ==
  Tup([i \in 1..Len(billoirTracks) |->
     TrackAtVertex(billoirTracks[i], trackMomenta[i], covDeltaPmat[i], vertexPos)])

(***************************************************************************)
(* State                                                                   *)
(***************************************************************************)
VARIABLES
  m_cfg,        \* the fitter's configuration (maxIterations), set at construction
  frame,        \* frame[c]: the arguments, locals and position of call c of fit
  linearized,   \* the collaborator's answers so far, by (track, reference point)
  deadSlotRead  \* what this build reads from the slot of a dead local

vars == << m_cfg, frame, linearized, deadSlotRead >>

\* the calls of fit a specification runs
SingleCall == {1}
ConcurrentCalls == {1, 2, 3}

\* A read through BilloirTrack::linTrack in the second track loop is a read of
\* the first loop's local linTrack after its lifetime: either the slot still
\* holds what the last iteration of the first loop stored, or later locals
\* have overwritten it.
DeadSlotOutcomes == {"lastTrack", "clobbered"}
ClobberedCovariance == Diag(Vec(<<3, 3, 3, 3, 3>>))

DanglingCovarianceAtPCA(f) ==
  IF deadSlotRead = "lastTrack" THEN f.linTrack[1].covarianceAtPCA
  ELSE ClobberedCovariance

\* a call that has not started; the locals take their values in Fit
IdleFrame ==
  [pc |-> "idle",
   paramVector |-> <<>>, constraint |-> DefaultVertex,
   chi2 |-> R(DBL_MAX), newChi2 |-> Zero, nTracks |-> 0, ndf |-> 0,
   isConstraintFit |-> FALSE,
   billoirTracks |-> <<>>, trackMomenta |-> <<>>,
   linPoint |-> ZeroVec(3), fittedVertex |-> DefaultVertex,
   nIter |-> 0, billoirVertex |-> BilloirVertex, iTrack |-> 0,
   linTrack |-> <<>>,
   Vdel |-> ZeroVec(3), VwgtMat |-> ZeroMat(3, 3),
   covDeltaVmat |-> ZeroMat(3, 3), deltaV |-> ZeroVec(3),
   covDeltaPmat |-> <<>>, deltaP |-> ZeroVec(3),
   tmpPhi |-> Zero, tmpTht |-> Zero,
   ret |-> <<>>,
   linCalls |-> <<>>, chi2Seq |-> <<>>, iterLog |-> <<>>]

Init ==
  /\ m_cfg \in [maxIterations : 1..MaxIterations]
  /\ frame = [c \in ConcurrentCalls |-> IdleFrame]
  /\ linearized = <<>>
  /\ deadSlotRead \in DeadSlotOutcomes

(***************************************************************************)
(* fit, step by step                                                       *)
(***************************************************************************)
\* no early return
NeverEmptyInput(nTracks) == FALSE

\* nTracks == 0
EmptyInput(nTracks) == nTracks = 0

\* lines 67-99: the arguments, the early return of an empty track list, ndf,
\* the constraint test and the locals before the loop
Fit(c, tracks, cons) ==
  /\ frame[c].pc = "idle"
  /\ LET nTracks == Len(tracks)
         isConstraintFit == IsConstraintFit(cons)
         args == [frame[c] EXCEPT !.paramVector = tracks, !.constraint = cons,
                                  !.chi2 = R(DBL_MAX), !.newChi2 = Zero,
                                  !.nTracks = nTracks]
     IN frame' = [frame EXCEPT ![c] =
          IF EmptyInput(nTracks)
          THEN [args EXCEPT !.pc = "returned", !.ret = <<DefaultVertex>>]
          ELSE [args EXCEPT !.pc = "loop",
                            !.ndf = Ndf(nTracks, isConstraintFit),
                            !.isConstraintFit = isConstraintFit,
                            !.billoirTracks = <<>>,
                            !.trackMomenta = <<>>,
                            !.linPoint = cons.position,
                            !.fittedVertex = DefaultVertex,
                            !.nIter = 0]]
  /\ UNCHANGED << m_cfg, linearized, deadSlotRead >>

\* a loop that stops one iteration early
LoopStopsEarly(nIter, maxIterations) == nIter + 1 < maxIterations

\* nIter < m_cfg.maxIterations
LoopContinues(nIter, maxIterations) == nIter < maxIterations

\* lines 101-107: the head of an iteration
IterationBegin(c) ==
  /\ frame[c].pc = "loop"
  /\ LoopContinues(frame[c].nIter, m_cfg.maxIterations)
  /\ frame' = [frame EXCEPT ![c] =
       [@ EXCEPT !.pc = "tracks", !.billoirTracks = <<>>, !.newChi2 = Zero,
                 !.billoirVertex = BilloirVertex, !.iTrack = 0]]
  /\ UNCHANGED << m_cfg, linearized, deadSlotRead >>

\* line 357: return std::move(fittedVertex)
Return(c) ==
  /\ frame[c].pc = "loop"
  /\ ~LoopContinues(frame[c].nIter, m_cfg.maxIterations)
  /\ frame' = [frame EXCEPT ![c] =
       [@ EXCEPT !.pc = "returned", !.ret = << frame[c].fittedVertex >>]]
  /\ UNCHANGED << m_cfg, linearized, deadSlotRead >>

\* a failure answered with the best vertex so far
ReturnBestSoFar(f) == [f EXCEPT !.pc = "returned", !.ret = << f.fittedVertex >>]

\* linearizeTrack's failure leaves fit as an exception: nothing catches it,
\* nothing is returned
Unwind(f) == [f EXCEPT !.pc = "thrown", !.ret = <<>>]

\* lines 109-181: one track of the first loop
LinearizeTrack(c, Answers) ==
  /\ frame[c].pc = "tracks"
  /\ LET f == frame[c]
         i == f.iTrack + 1
         trackContainer == f.paramVector[i]
         momenta == IF f.nIter = 0
                    THEN Append(f.trackMomenta, InitialMomentum(trackContainer))
                    ELSE f.trackMomenta
         key == << trackContainer, f.linPoint >>
         called == [f EXCEPT !.trackMomenta = momenta,
                             !.linCalls = Append(@, [nIter |-> f.nIter, iTrack |-> f.iTrack,
                                                     track |-> trackContainer,
                                                     linPoint |-> f.linPoint])]
     IN \E answer \in (IF key \in DOMAIN linearized THEN {linearized[key]}
                       ELSE Answers) :
          /\ linearized' = (IF key \in DOMAIN linearized THEN linearized
                            ELSE [k \in DOMAIN linearized \cup {key} |->
                                    IF k = key THEN answer ELSE linearized[k]])
          /\ frame' = [frame EXCEPT ![c] =
               IF answer = PropagationFailure
               THEN Unwind(called)
               ELSE LET bTrack == BilloirTrack(trackContainer, answer, momenta[i])
                    IN [called EXCEPT
                          !.linTrack = << answer >>,
                          !.billoirVertex = Accumulate(@, bTrack, answer),
                          !.billoirTracks = Append(@, bTrack),
                          !.iTrack = i,
                          !.pc = IF i = f.nTracks THEN "solve" ELSE "tracks"]]
  /\ UNCHANGED << m_cfg, deadSlotRead >>

\* lines 183-218: the vertex update
Solve(c) ==
  /\ frame[c].pc = "solve"
  /\ LET f == frame[c]
         Vdel == VdelOf(f.billoirVertex, f.isConstraintFit, f.constraint, f.linPoint)
         VwgtMat == VwgtMatOf(f.billoirVertex, f.isConstraintFit, f.constraint)
         covDeltaVmat == Inverse(VwgtMat)
     IN frame' = [frame EXCEPT ![c] =
          [f EXCEPT !.Vdel = Vdel, !.VwgtMat = VwgtMat,
                    !.covDeltaVmat = covDeltaVmat,
                    !.deltaV = MatVec(covDeltaVmat, Vdel),
                    !.covDeltaPmat = Tup([i \in 1..f.nTracks |-> <<>>]),
                    !.iTrack = 0,
                    !.pc = "momenta"]]
  /\ UNCHANGED << m_cfg, linearized, deadSlotRead >>

\* lines 219-227: deltaP of one track, added to its running momentum
UpdateTrackMomentum(c) ==
  /\ frame[c].pc = "momenta"
  /\ LET f == frame[c]
         i == f.iTrack + 1
         deltaP == DeltaP(f.billoirTracks[i], f.deltaV)
     IN frame' = [frame EXCEPT ![c] =
          [f EXCEPT !.deltaP = deltaP,
                    !.trackMomenta[i] = AddMomentum(@, deltaP),
                    !.pc = "periodicity"]]
  /\ UNCHANGED << m_cfg, linearized, deadSlotRead >>

\* lines 229-251: correct for 2PI / PI periodicity, into tmpPhi and tmpTht
CorrectPeriodicity(c) ==
  /\ frame[c].pc = "periodicity"
  /\ LET f == frame[c]
         corrected == PeriodicityCorrection(f.trackMomenta[f.iTrack + 1])
     IN frame' = [frame EXCEPT ![c] =
          [f EXCEPT !.tmpPhi = corrected[1], !.tmpTht = corrected[2],
                    !.pc = "store"]]
  /\ UNCHANGED << m_cfg, linearized, deadSlotRead >>

\* lines 253-254: trackMomenta[iTrack][0] = tmpPhi, [1] = tmpTht
StoreAngles(c) ==
  /\ frame[c].pc = "store"
  /\ LET f == frame[c]
         i == f.iTrack + 1
     IN frame' = [frame EXCEPT ![c] =
          [f EXCEPT !.trackMomenta[i] = << f.tmpPhi, f.tmpTht, f.trackMomenta[i][3] >>,
                    !.pc = "covariance"]]
  /\ UNCHANGED << m_cfg, linearized, deadSlotRead >>

\* lines 256-306: the track's refit covariance and its chi2
TrackCovarianceAndChi2(c) ==
  /\ frame[c].pc = "covariance"
  /\ LET f == frame[c]
         i == f.iTrack + 1
         bTrack == f.billoirTracks[i]
         chi2 == TrackChi2(bTrack, f.deltaV, f.deltaP, DanglingCovarianceAtPCA(f))
     IN frame' = [frame EXCEPT ![c] =
          [f EXCEPT !.covDeltaPmat[i] = CovDeltaP(bTrack, f.covDeltaVmat),
                    !.billoirTracks[i].chi2 = chi2,
                    !.newChi2 = Add(@, chi2),
                    !.iTrack = i,
                    !.pc = IF i = f.nTracks THEN "finish" ELSE "momenta"]]
  /\ UNCHANGED << m_cfg, linearized, deadSlotRead >>

\* a best chi2 kept in one place for all calls
SharedBestChi2(f) == frame[1].chi2

\* the local chi2 of the call: the best total chi2 of its iterations so far
BestChi2(f) == f.chi2

\* lines 309-356: the constraint's chi2, the new linearization point and the
\* keep-best replacement of fittedVertex
FinishIteration(c) ==
  /\ frame[c].pc = "finish"
  /\ LET f == frame[c]
         newChi2 == IF f.isConstraintFit
                    THEN Add(f.newChi2, ConstraintChi2(f.constraint, f.linPoint, f.deltaV))
                    ELSE f.newChi2
         linPoint == VecAdd(f.linPoint, f.deltaV)
         advanced == [f EXCEPT !.newChi2 = newChi2, !.linPoint = linPoint,
                               !.chi2Seq = Append(@, newChi2),
                               !.iterLog = Append(@, [linPoint |-> linPoint,
                                                      covDeltaVmat |-> f.covDeltaVmat,
                                                      billoirTracks |-> f.billoirTracks,
                                                      trackMomenta |-> f.trackMomenta,
                                                      covDeltaPmat |-> f.covDeltaPmat]),
                               !.nIter = @ + 1, !.pc = "loop"]
     IN frame' = [frame EXCEPT ![c] =
          IF Improves(newChi2, BestChi2(f))
          THEN [advanced EXCEPT
                  !.chi2 = newChi2,
                  !.fittedVertex =
                     Vertex(linPoint, f.covDeltaVmat, newChi2, f.ndf,
                            TracksAtVertex(f.billoirTracks, f.trackMomenta,
                                           f.covDeltaPmat, linPoint)),
                  !.covDeltaPmat = Tup([i \in 1..f.nTracks |-> <<>>])]
          ELSE advanced]
  /\ UNCHANGED << m_cfg, linearized, deadSlotRead >>

\* the steps of a call after its entry, with the collaborator answering from
\* Answers
Step(c, Answers) ==
  \/ IterationBegin(c)
  \/ LinearizeTrack(c, Answers)
  \/ Solve(c)
  \/ UpdateTrackMomentum(c)
  \/ CorrectPeriodicity(c)
  \/ StoreAngles(c)
  \/ TrackCovarianceAndChi2(c)
  \/ FinishIteration(c)
  \/ Return(c)

\* what the collaborator may do on a call
CollaboratorOutcomes == LinearizationAnswers \cup {PropagationFailure}

Next ==
  \E c \in SingleCall :
    \/ \E tracks \in TrackLists(MaxTracks), cons \in Constraints : Fit(c, tracks, cons)
    \/ Step(c, CollaboratorOutcomes)

Spec == Init /\ [][Next]_vars

(***************************************************************************)
(* The periodicity correction alone: one call stands before the correction *)
(* of its only track, with any updated momentum of a grid of angles        *)
(***************************************************************************)
\* the updated momenta (phi, theta, q/p) the correction is applied to
UpdatedMomenta ==
  { << R(phi), R(theta), R(qop) >> :
      phi \in -AngleRange..AngleRange, theta \in -AngleRange..AngleRange,
      qop \in {-2, 1} }

\* lines 219-227 have just updated the momentum of the only track
InitAngles ==
  /\ m_cfg = [maxIterations |-> 1]
  /\ linearized = <<>>
  /\ deadSlotRead \in DeadSlotOutcomes
  /\ \E momentum \in UpdatedMomenta :
       frame = [c \in ConcurrentCalls |->
                  IF c \in SingleCall
                  THEN [IdleFrame EXCEPT !.pc = "periodicity",
                                         !.paramVector = << FirstTrack >>,
                                         !.nTracks = 1, !.ndf = 1,
                                         !.chi2 = R(DBL_MAX),
                                         !.fittedVertex = DefaultVertex,
                                         !.trackMomenta = << momentum >>]
                  ELSE IdleFrame]

NextAngles == \E c \in SingleCall : CorrectPeriodicity(c) \/ StoreAngles(c)

SpecAngles == InitAngles /\ [][NextAngles]_vars

(***************************************************************************)
(* One call of fit with few tracks and a longer budget of iterations       *)
(***************************************************************************)
InitLong ==
  /\ m_cfg \in [maxIterations : 1..MaxIterationsLong]
  /\ frame = [c \in ConcurrentCalls |-> IdleFrame]
  /\ linearized = <<>>
  /\ deadSlotRead \in DeadSlotOutcomes

\* what the collaborator may do on a call of the longer fit
CollaboratorOutcomesLong == CollaboratorOutcomes \cup {FarAnswer}

NextLong ==
  \E c \in SingleCall :
    \/ \E tracks \in TrackLists(MaxTracksLong), cons \in Constraints : Fit(c, tracks, cons)
    \/ Step(c, CollaboratorOutcomesLong)

SpecLong == InitLong /\ [][NextLong]_vars

(***************************************************************************)
(* Several calls of fit on one fitter, interleaved step by step            *)
(***************************************************************************)
\* the track lists of the interleaved calls
TrackListsTwo == SeqsUpTo({FirstTrack}, MaxTracksTwo)

\* the constraints of the interleaved calls: none, and a beam constraint
ConstraintsTwo == { DefaultVertex, BeamConstraint }

\* what the collaborator may do on a call of the interleaved calls
CollaboratorOutcomesTwo ==
  { a \in LinearizationAnswers : a.positionJacobian = Dx } \cup {PropagationFailure}

InitTwo ==
  /\ m_cfg \in [maxIterations : 1..MaxIterationsTwo]
  /\ frame = [c \in ConcurrentCalls |-> IdleFrame]
  /\ linearized = <<>>
  /\ deadSlotRead \in DeadSlotOutcomes

NextTwo ==
  \E c \in ConcurrentCalls :
    \/ \E tracks \in TrackListsTwo, cons \in ConstraintsTwo : Fit(c, tracks, cons)
    \/ Step(c, CollaboratorOutcomesTwo)

SpecTwo == InitTwo /\ [][NextTwo]_vars

(***************************************************************************)
(* Properties                                                              *)
(***************************************************************************)
Frames == {frame[c] : c \in ConcurrentCalls}

Last(s) == s[Len(s)]

\* the finite values among the per-iteration chi-squares of a call
FiniteChi2s(f) == {f.chi2Seq[k] : k \in {j \in 1..Len(f.chi2Seq) : IsFinite(f.chi2Seq[j])}}

MinChi2(S) == CHOOSE x \in S : \A y \in S : ~Less(y, x)

KeepBestWitness ==
  \E f \in Frames :
    /\ f.pc = "returned"
    /\ Len(f.chi2Seq) = 2
    /\ Less(f.chi2Seq[1], f.chi2Seq[2])
    /\ f.ret[1].chi2 = f.chi2Seq[1]

\* a matrix whose inverse() divides by a zero determinant
Singular(A) == Det(A) = Zero

\* the positions of a call after Solve has inverted VwgtMat in the current
\* or in an earlier iteration
Solved(f) ==
  f.pc \in {"momenta", "periodicity", "store", "covariance", "finish"} \/
  (f.nIter >= 1 /\ f.pc \in {"loop", "tracks", "solve", "returned", "thrown"})

\* the call has taken the inverse of a singular 3x3 matrix: a track's
\* Gi = Et*W*E, the vertex weight VwgtMat, or the covariance of an active
\* constraint
SingularInverse(f) ==
  /\ f.pc # "idle"
  /\ \/ \E i \in 1..Len(f.billoirTracks) : Singular(f.billoirTracks[i].GiMat)
     \/ Solved(f) /\ Singular(f.VwgtMat)
     \/ Solved(f) /\ f.isConstraintFit /\ Singular(f.constraint.covariance)

\* C2: a singular 3x3 inverse fails the call, which then returns no vertex:
\* no call that has inverted a singular matrix returns.
SingularMatrixFails ==
  \A f \in Frames : SingularInverse(f) => f.pc # "returned"

\* the tracks whose stored running momentum has been through an update and
\* the periodicity correction
NormalizedTracks(f) ==
  LET upto == IF f.pc = "idle" THEN 0
              ELSE IF f.nIter >= 1 THEN Len(f.trackMomenta)
              ELSE IF f.pc \in {"momenta", "periodicity", "store", "finish"} THEN f.iTrack
              ELSE IF f.pc = "covariance" THEN f.iTrack + 1
              ELSE 0
  IN (1..upto) \ (IF f.pc \in {"periodicity", "store"} THEN {f.iTrack + 1} ELSE {})

\* phi in (-pi, pi]
InHalfOpenPhiRange(phi) == Less(Neg(PI), phi) /\ ~Less(PI, phi)

\* theta in [0, pi]
InThetaRange(theta) == IsFinite(theta) /\ ~Less(theta, Zero) /\ ~Less(PI, theta)

\* C3: after every per-track momentum update the stored azimuth lies in
\* (-pi, pi], -pi excluded, and the stored polar angle in [0, pi] (stated here
\* of the finite stored values only).
AngleRange_HalfOpen ==
  \A f \in Frames : \A i \in NormalizedTracks(f) :
    (IsFinite(f.trackMomenta[i][1]) /\ IsFinite(f.trackMomenta[i][2])) =>
      /\ InHalfOpenPhiRange(f.trackMomenta[i][1])
      /\ InThetaRange(f.trackMomenta[i][2])

\* what fit computes for the degrees of freedom of n tracks
ExpectedNdf(n, constraint) ==
  (IF n >= 2 THEN 2 * n - 3 ELSE 1) + (IF Trace(constraint.covariance) # Zero THEN 3 ELSE 0)

ZeroTracks ==
  \A f \in Frames :
    (f.pc # "idle" /\ f.paramVector = <<>>) =>
      /\ f.pc = "returned"
      /\ Len(f.ret) = 1
      /\ f.ret[1].position = << Zero, Zero, Zero >>
      /\ f.ret[1].covariance = ZeroMat(3, 3)
      /\ f.ret[1].tracksAtVertex = <<>>
      /\ f.nIter = 0 /\ f.chi2Seq = <<>>
      /\ f.linCalls = <<>>

\* C6 witness: an empty track list with an active constraint and a budget of
\* two iterations has returned.
ZeroTracksWitness ==
  \E f \in Frames :
    /\ f.pc = "returned" /\ f.paramVector = <<>>
    /\ Trace(f.constraint.covariance) # Zero
    /\ m_cfg.maxIterations = 2

\* the positions inside an iteration, after its head
InIteration(f) ==
  f.pc \in {"tracks", "solve", "momenta", "periodicity", "store", "covariance", "finish"}

\* the collaborator calls a call must have made when it stands where it
\* stands: all of every finished iteration, and those of the current one
ExpectedCalls(f) ==
  f.nIter * f.nTracks
    + (IF f.pc \in {"solve", "momenta", "periodicity", "store", "covariance", "finish"}
       THEN f.nTracks
       ELSE IF f.pc = "tracks" THEN f.iTrack
       ELSE IF f.pc = "thrown" THEN f.iTrack + 1
       ELSE 0)

\* C7: a call on a non-empty track list that does not fail returns after
\* exactly maxIterations iterations, whatever the chi-squares were; every
\* iteration calls the collaborator once per track, in input order, with the
\* linearization point of the start of that iteration.
FullBudgetLooping ==
  \A f \in Frames :
    (f.pc # "idle" /\ f.nTracks > 0) =>
      /\ InIteration(f) => f.nIter < m_cfg.maxIterations
      /\ f.pc \in {"tracks", "momenta", "periodicity", "store", "covariance"} =>
           f.iTrack < f.nTracks
      /\ f.nIter <= m_cfg.maxIterations
      /\ f.pc = "returned" =>
           /\ f.nIter = m_cfg.maxIterations
           /\ Len(f.chi2Seq) = m_cfg.maxIterations
           /\ Len(f.linCalls) = m_cfg.maxIterations * f.nTracks
      /\ Len(f.linCalls) = ExpectedCalls(f)
      /\ \A k \in 1..Len(f.linCalls) :
           LET e == f.linCalls[k]
           IN /\ e.nIter = (k - 1) \div f.nTracks
              /\ e.iTrack = (k - 1) % f.nTracks
              /\ e.track = f.paramVector[e.iTrack + 1]
              /\ e.linPoint = f.linCalls[e.nIter * f.nTracks + 1].linPoint
              /\ e.nIter = 0 => e.linPoint = f.constraint.position
              /\ (e.nIter = f.nIter /\ (InIteration(f) \/ f.pc = "thrown")) =>
                   e.linPoint = f.linPoint

\* C7 witness: two tracks, a budget of two iterations, the second iteration
\* worse than the first, and the call has returned after four collaborator
\* calls.
FullBudgetLoopingWitness ==
  \E f \in Frames :
    /\ f.pc = "returned" /\ f.nTracks = 2 /\ m_cfg.maxIterations = 2
    /\ Len(f.linCalls) = 4
    /\ Len(f.chi2Seq) = 2 /\ Less(f.chi2Seq[1], f.chi2Seq[2])

\* the collaborator's answer to a logged call
AnswerTo(e) == linearized[<< e.track, e.linPoint >>]

\* C8: when the collaborator fails for a track, fit ends with that failure:
\* the failed call is the last call of the collaborator, and nothing is
\* returned, not even a vertex materialized by an earlier iteration.
LinearizationFailureAborts ==
  \A f \in Frames :
    /\ \A k \in 1..Len(f.linCalls) :
         AnswerTo(f.linCalls[k]) = PropagationFailure =>
           /\ f.pc = "thrown"
           /\ k = Len(f.linCalls)
           /\ f.ret = <<>>
    /\ f.pc = "thrown" =>
         /\ f.ret = <<>>
         /\ AnswerTo(Last(f.linCalls)) = PropagationFailure

\* C8 witness: the collaborator has failed in the second iteration, after the
\* first iteration had materialized a vertex; nothing is returned.
LinearizationFailureAbortsWitness ==
  \E f \in Frames :
    /\ f.pc = "thrown" /\ f.nIter = 1
    /\ f.fittedVertex.tracksAtVertex # <<>>
    /\ f.ret = <<>>

\* the iteration that has just ended has replaced fittedVertex
JustMaterialized(f) ==
  /\ f.pc = "loop" /\ f.chi2Seq # <<>>
  /\ IsFinite(Last(f.chi2Seq))
  /\ \A k \in 1..(Len(f.chi2Seq) - 1) :
       IsFinite(f.chi2Seq[k]) => Less(Last(f.chi2Seq), f.chi2Seq[k])

\* track i's chi-square contribution in the iteration that has just ended:
\* its residual weighted by the inverse of its own covarianceAtPCA
OwnChi2(f, i) ==
  LET bTrack == f.billoirTracks[i]
      own    == AnswerTo(f.linCalls[(f.nIter - 1) * f.nTracks + i])
  IN TrackChi2(bTrack, f.deltaV, DeltaP(bTrack, f.deltaV), own.covarianceAtPCA)

\* the refit list but for the chi-squares: n entries in input order, each
\* with its original track, the parameters (0, 0, phi, theta, q/p) of the
\* track's running momentum and a perigee surface at the vertex position
RefitEntries(f) ==
  LET v == f.fittedVertex
  IN /\ Len(v.tracksAtVertex) = f.nTracks
     /\ \A i \in 1..f.nTracks :
          LET t == v.tracksAtVertex[i]
          IN /\ t.originalTrack = f.paramVector[i]
             /\ t.fittedParams.parameters =
                  << Zero, Zero, f.trackMomenta[i][1], f.trackMomenta[i][2],
                     f.trackMomenta[i][3] >>
             /\ t.fittedParams.referenceSurface.perigee = v.position
             /\ v.position = f.linPoint

\* C9: a materialized vertex lists one refit entry per input track, in input
\* order, entry i with track i, track i's chi-square contribution of that
\* iteration, and (0, 0, phi_i, theta_i, q/p_i) of track i's running momentum
\* after that iteration's update, on a surface at the fitted position.
RefitList ==
  \A f \in Frames :
    JustMaterialized(f) =>
      /\ RefitEntries(f)
      /\ \A i \in 1..f.nTracks : f.fittedVertex.tracksAtVertex[i].chi2Track = OwnChi2(f, i)

\* the same with the chi-square the second loop stored in the BilloirTrack
RefitListStored ==
  \A f \in Frames :
    JustMaterialized(f) =>
      /\ RefitEntries(f)
      /\ \A i \in 1..f.nTracks :
           f.fittedVertex.tracksAtVertex[i].chi2Track = f.billoirTracks[i].chi2

\* a is b plus a multiple of 2*pi
SameAngle(a, b) == Fmod(Sub(a, b), TWO_PI) = Zero

\* two (phi, theta) pairs of one momentum direction: equal up to multiples of
\* 2*pi, or related by (phi, theta) ~ (phi + pi, -theta) up to multiples of 2*pi
SameDirection(before, after) ==
  \/ SameAngle(after[1], before[1]) /\ SameAngle(after[2], before[2])
  \/ SameAngle(after[1], Add(before[1], PI)) /\ SameAngle(after[2], Neg(before[2]))

\* C4: the periodicity correction preserves the direction.  Whenever a call
\* stores tmpPhi and tmpTht over a finite updated momentum, the stored pair
\* is the old pair up to multiples of 2*pi in either angle and/or the
\* identification (phi, theta) ~ (phi + pi, -theta), and q/p is what it was.
DirectionPreserved ==
  [][\A c \in ConcurrentCalls :
       (frame[c].pc = "store" /\ frame'[c].pc = "covariance") =>
         LET i      == frame[c].iTrack + 1
             before == frame[c].trackMomenta[i]
             after  == frame'[c].trackMomenta[i]
         IN VecFinite(before) =>
              /\ SameDirection(before, after)
              /\ after[3] = before[3]]_vars

\* C4 witness: the correction has worked on phi = 3 (of pi = 4) and a
\* negative theta = -1: theta is negated, and phi + pi = 7 is wrapped again
\* to -1.
DirectionPreservedWitness ==
  \E f \in Frames :
    /\ f.pc = "store"
    /\ f.trackMomenta[f.iTrack + 1][1] = R(3)
    /\ f.trackMomenta[f.iTrack + 1][2] = R(-1)
    /\ f.tmpPhi = R(-1) /\ f.tmpTht = R(1)

\* two calls were given the same tracks and the same constraint
SameInputs(f, g) == f.paramVector = g.paramVector /\ f.constraint = g.constraint

\* the call has ended
Ended(f) == f.pc \in {"returned", "thrown"}

StartPoint(f, k) == f.linCalls[k * f.nTracks + 1].linPoint

\* the sum of the chi2 the second loop stored in the BilloirTracks
TrackChi2Sum(f) ==
  LET S[i \in 0..Len(f.billoirTracks)] ==
        IF i = 0 THEN Zero ELSE Add(S[i - 1], f.billoirTracks[i].chi2)
  IN S[Len(f.billoirTracks)]

\* the positions of a call between Solve and the end of the same iteration
AfterSolve(f) == f.pc \in {"momenta", "periodicity", "store", "covariance", "finish"}

\* C11: the first reference point handed to the collaborator is the
\* constraint's position (the origin when no constraint is given); in a
\* constraint fit the offset constraint.position - linPoint that enters Vdel
\* and the constraint's chi-square is taken from the linPoint the iteration
\* started with, so it is zero in the first iteration, and linPoint advances
\* by deltaV only after both uses.
InitialLinPoint ==
  \A f \in Frames :
    /\ f.linCalls # <<>> =>
         /\ f.linCalls[1].linPoint = f.constraint.position
         /\ f.constraint = DefaultVertex => f.linCalls[1].linPoint = ZeroVec(3)
    /\ (f.isConstraintFit /\ AfterSolve(f)) =>
         LET off  == VecSub(f.constraint.position, StartPoint(f, f.nIter))
             Wc   == Inverse(f.constraint.covariance)
             base == VecSub(f.billoirVertex.Tvec, f.billoirVertex.BCUvec)
         IN /\ f.Vdel = VecAdd(base, MatVec(Wc, off))
            /\ f.linPoint = StartPoint(f, f.nIter)
            /\ f.nIter = 0 => off = ZeroVec(3)
    /\ (f.isConstraintFit /\ f.pc = "loop" /\ f.nIter >= 1) =>
         LET start == StartPoint(f, f.nIter - 1)
             off   == VecSub(f.constraint.position, start)
             Wc    == Inverse(f.constraint.covariance)
         IN /\ Last(f.chi2Seq) = Add(TrackChi2Sum(f), Quad(VecSub(f.deltaV, off), Wc))
            /\ f.linPoint = VecAdd(start, f.deltaV)
            /\ f.nIter = 1 => off = ZeroVec(3)

\* C11 witness: a constraint fit has ended its second iteration, which started
\* away from the constraint's position, with a finite chi-square.
InitialLinPointWitness ==
  \E f \in Frames :
    /\ f.isConstraintFit /\ f.pc = "loop" /\ f.nIter = 2
    /\ StartPoint(f, 0) = f.constraint.position
    /\ StartPoint(f, 1) # f.constraint.position
    /\ IsFinite(Last(f.chi2Seq))

\* the running momentum of track i before the update of the current
\* iteration: what deltaQ was taken against
MomentumBefore(f, i) ==
  LET lin == AnswerTo(f.linCalls[f.nIter * f.nTracks + i]).parametersAtPCA
      dq  == f.billoirTracks[i].deltaQ
  IN << Sub(lin[ePHI], dq[3]), Sub(lin[eTHETA], dq[4]), Sub(lin[eQOP], dq[5]) >>

\* a momentum with deltaP added component by component, then corrected for
\* periodicity
UpdatedAndCorrected(momentum, deltaP) ==
  LET corrected == PeriodicityCorrection(<< Add(momentum[1], deltaP[1]),
                                            Add(momentum[2], deltaP[2]),
                                            Add(momentum[3], deltaP[3]) >>)
  IN << corrected[1], corrected[2], corrected[3] >>

\* C12: every iteration advances the fit, improving or not.  At the end of
\* the second loop every track's running momentum is its momentum of before
\* plus its deltaP, corrected for periodicity; the step that ends the
\* iteration moves linPoint to linPoint + deltaV and leaves the momenta; it
\* leaves fittedVertex and the best chi2 alone exactly when the iteration's
\* chi2 is not below the best; and the next iteration hands the advanced
\* linPoint to the collaborator.
RegressingStillAdvances ==
  [][\A c \in ConcurrentCalls :
       LET f == frame[c]
           g == frame'[c]
       IN /\ (f.pc = "finish" /\ g.pc = "loop") =>
               /\ \A i \in 1..f.nTracks :
                    f.trackMomenta[i] =
                      UpdatedAndCorrected(MomentumBefore(f, i),
                                          DeltaP(f.billoirTracks[i], f.deltaV))
               /\ g.trackMomenta = f.trackMomenta
               /\ g.linPoint = VecAdd(f.linPoint, f.deltaV)
               /\ g.nIter = f.nIter + 1
               /\ (g.fittedVertex = f.fittedVertex /\ g.chi2 = f.chi2)
                    <=> ~Less(Last(g.chi2Seq), f.chi2)
          /\ (f.pc = "tracks" /\ f.nIter >= 1 /\ Len(g.linCalls) = Len(f.linCalls) + 1) =>
               /\ Last(g.linCalls).linPoint = f.linPoint
               /\ f.linPoint = VecAdd(StartPoint(f, f.nIter - 1), f.deltaV)]_vars

\* C12 witness: the second iteration was worse than the first and has left
\* the vertex of the first in place, and the third iteration has called the
\* collaborator at the linPoint the second one advanced to, away from the
\* position of the vertex kept.
RegressingStillAdvancesWitness ==
  \E f \in Frames :
    /\ f.pc = "solve" /\ f.nIter = 2
    /\ Less(f.chi2Seq[1], f.chi2Seq[2])
    /\ f.fittedVertex.chi2 = f.chi2Seq[1]
    /\ f.fittedVertex.position = StartPoint(f, 1)
    /\ StartPoint(f, 2) = VecAdd(StartPoint(f, 1), f.deltaV)
    /\ StartPoint(f, 2) # f.fittedVertex.position
    /\ \A i \in 1..f.nTracks : MomentumBefore(f, i) # InitialMomentum(f.paramVector[i])

\* the iterations of a call that ended with a finite chi2
FiniteIterations(f) == {k \in 1..Len(f.chi2Seq) : IsFinite(f.chi2Seq[k])}

\* the earliest iteration whose chi2 is the least of the finite ones so far
EarliestBest(f) ==
  LET least == {k \in FiniteIterations(f) :
                  \A j \in FiniteIterations(f) : ~Less(f.chi2Seq[j], f.chi2Seq[k])}
  IN CHOOSE k \in least : \A j \in least : k <= j

\* the vertex iteration k (from 1) would materialize: its linPoint after the
\* advance, its inverse of VwgtMat, its chi2 and its tracks
VertexOfIteration(f, k) ==
  LET it == f.iterLog[k]
  IN Vertex(it.linPoint, it.covDeltaVmat, f.chi2Seq[k], f.ndf,
            TracksAtVertex(it.billoirTracks, it.trackMomenta, it.covDeltaPmat,
                           it.linPoint))

\* C13: at every point of a call, and at its return, fittedVertex is as a
\* whole the vertex of one iteration, the earliest one whose chi-square is
\* the least so far: its linPoint after the advance, its inverse of VwgtMat,
\* its chi-square with ndf, its refit list; a later iteration with an equal
\* chi-square has not replaced it.
WholesaleReplacement ==
  \A f \in Frames :
    (f.pc # "idle" /\ FiniteIterations(f) # {}) =>
      LET best == EarliestBest(f)
      IN /\ f.fittedVertex = VertexOfIteration(f, best)
         /\ Len(f.linCalls) > best * f.nTracks =>
              f.fittedVertex.position = StartPoint(f, best)
         /\ (best = f.nIter /\ f.pc \in {"loop", "returned"}) =>
              /\ f.fittedVertex.position = f.linPoint
              /\ f.fittedVertex.covariance = Inverse(f.VwgtMat)
         /\ f.pc = "returned" => f.ret = << VertexOfIteration(f, best) >>

\* C13 witness: the second iteration ended with the chi-square of the first,
\* at another position, and the call has returned the vertex of the first.
WholesaleReplacementWitness ==
  \E f \in Frames :
    /\ f.pc = "returned" /\ Len(f.chi2Seq) = 2
    /\ IsFinite(f.chi2Seq[1]) /\ f.chi2Seq[2] = f.chi2Seq[1]
    /\ f.iterLog[2].linPoint # f.iterLog[1].linPoint
    /\ f.ret = << VertexOfIteration(f, 1) >>

\* C14: the constraint is active exactly when the trace of its covariance
\* is not zero.  An inactive one, a position with zero covariance included,
\* adds nothing to Vdel, VwgtMat, the chi-square and ndf; an active one adds
\* covariance^-1 * (position - linPoint), covariance^-1, its chi-square term
\* and 3, in every iteration.
ConstraintActivation ==
  \A f \in Frames :
    (f.pc # "idle" /\ f.nTracks > 0) =>
      LET active == Trace(f.constraint.covariance) # Zero
          Wc     == Inverse(f.constraint.covariance)
          bv     == f.billoirVertex
          tracksOnly == IF f.nTracks < 2 THEN 1 ELSE 2 * f.nTracks - 3
      IN /\ f.isConstraintFit = active
         /\ f.ndf = tracksOnly + (IF active THEN 3 ELSE 0)
         /\ AfterSolve(f) =>
              IF active
              THEN /\ f.Vdel = VecAdd(VecSub(bv.Tvec, bv.BCUvec),
                                      MatVec(Wc, VecSub(f.constraint.position, f.linPoint)))
                   /\ f.VwgtMat = MatAdd(MatSub(bv.Amat, bv.BCBmat), Wc)
              ELSE /\ f.Vdel = VecSub(bv.Tvec, bv.BCUvec)
                   /\ f.VwgtMat = MatSub(bv.Amat, bv.BCBmat)
         /\ (f.pc = "loop" /\ f.nIter >= 1) =>
              Last(f.chi2Seq) =
                (IF active
                 THEN Add(TrackChi2Sum(f),
                          Quad(VecSub(f.deltaV, VecSub(f.constraint.position,
                                                       StartPoint(f, f.nIter - 1))), Wc))
                 ELSE TrackChi2Sum(f))

\* C14 witness: a constraint given with a position away from the origin and
\* zero covariance has stayed out of two iterations that ended with finite
\* chi-squares.
ConstraintActivationWitness ==
  \E f \in Frames :
    /\ f.pc = "loop" /\ f.nIter = 2
    /\ f.constraint.position # ZeroVec(3)
    /\ f.constraint.covariance = ZeroMat(3, 3)
    /\ ~f.isConstraintFit
    /\ IsFinite(f.chi2Seq[1]) /\ IsFinite(f.chi2Seq[2])
    /\ f.fittedVertex.ndf = 1

\* fittedVertex is still the default-constructed Vertex
NotMaterialized(f) == f.fittedVertex = DefaultVertex

\* C15: with +infinity as the first best chi-square, a call on a non-empty
\* track list none of whose iterations had a finite chi-square runs its full
\* budget and returns the default vertex of the zero-track case (origin, zero
\* covariance, no refit entries); and a first iteration with a finite
\* chi-square always materializes the vertex.
NeverMaterialized ==
  \A f \in Frames :
    (f.pc # "idle" /\ f.nTracks > 0) =>
      /\ FiniteIterations(f) = {} =>
           /\ NotMaterialized(f)
           /\ f.pc # "thrown" => f.ret \in {<<>>, << DefaultVertex >>}
           /\ f.pc = "returned" =>
                /\ f.ret = << DefaultVertex >>
                /\ f.nIter = m_cfg.maxIterations
                /\ f.ret[1].position = ZeroVec(3)
                /\ f.ret[1].covariance = ZeroMat(3, 3)
                /\ f.ret[1].tracksAtVertex = <<>>
      /\ (Len(f.chi2Seq) >= 1 /\ IsFinite(f.chi2Seq[1])) =>
           /\ ~NotMaterialized(f)
           /\ Len(f.chi2Seq) = 1 => f.fittedVertex = VertexOfIteration(f, 1)

\* the same with the first best chi-square the code has, the largest finite
\* double: an iteration counts when its chi-square is below it
NeverMaterializedBelowMax ==
  \A f \in Frames :
    (f.pc # "idle" /\ f.nTracks > 0) =>
      /\ (\A k \in 1..Len(f.chi2Seq) : ~Less(f.chi2Seq[k], R(DBL_MAX))) =>
           /\ NotMaterialized(f)
           /\ f.pc = "returned" =>
                (f.ret = << DefaultVertex >> /\ f.nIter = m_cfg.maxIterations)
      /\ (Len(f.chi2Seq) >= 1 /\ Less(f.chi2Seq[1], R(DBL_MAX))) =>
           /\ ~NotMaterialized(f)
           /\ Len(f.chi2Seq) = 1 => f.fittedVertex = VertexOfIteration(f, 1)

\* the smaller of two numbers
Min(a, b) == IF a < b THEN a ELSE b

\* the sums the first loop has added up over the BilloirTracks of the current
\* iteration, from a zeroed BilloirVertex
SumsOfIteration(f) ==
  LET S[i \in 0..Len(f.billoirTracks)] ==
        IF i = 0 THEN BilloirVertex
        ELSE Accumulate(S[i - 1], f.billoirTracks[i],
                        AnswerTo(f.linCalls[f.nIter * f.nTracks + i]))
  IN S[Len(f.billoirTracks)]

\* the running momentum estimates the current iteration found on its entry:
\* the tracks' own parameters in the first iteration, what the iteration
\* before left in every later one
MomentaOnEntry(f) ==
  IF f.nIter = 0
  THEN Tup([i \in 1..Len(f.trackMomenta) |-> InitialMomentum(f.paramVector[i])])
  ELSE f.iterLog[f.nIter].trackMomenta

\* C16: trackMomenta gets one entry per track, pushed only in the first
\* iteration from the track's own (phi, theta, q/p); from then on it keeps
\* length nTracks with entry i belonging to track i and is never set from the
\* measurement again, so deltaQ[2..4] of a later iteration is the linearized
\* (phi, theta, q/p) minus the estimate the iteration before left, and
\* deltaQ[0], deltaQ[1] are the linearized d0 and z0; billoirTracks and the
\* sums of billoirVertex start every iteration empty and zeroed.
RunningMomenta ==
  \A f \in Frames :
    (f.pc # "idle" /\ f.nTracks > 0) =>
      /\ Len(f.trackMomenta) = Min(Len(f.linCalls), f.nTracks)
      /\ (f.pc \in {"tracks", "solve"}) => f.trackMomenta = MomentaOnEntry(f)
      /\ (InIteration(f) \/ f.pc = "thrown") =>
           \A i \in 1..Len(f.billoirTracks) :
             LET lin == AnswerTo(f.linCalls[f.nIter * f.nTracks + i]).parametersAtPCA
                 dq  == f.billoirTracks[i].deltaQ
                 was == MomentaOnEntry(f)[i]
             IN /\ f.billoirTracks[i].originalTrack = f.paramVector[i]
                /\ dq[1] = lin[eLOC_D0]
                /\ dq[2] = lin[eLOC_Z0]
                /\ dq[3] = Sub(lin[ePHI], was[1])
                /\ dq[4] = Sub(lin[eTHETA], was[2])
                /\ dq[5] = Sub(lin[eQOP], was[3])
      /\ (f.pc = "tracks") =>
           /\ Len(f.billoirTracks) = f.iTrack
           /\ f.iTrack = 0 => (f.billoirTracks = <<>> /\ f.billoirVertex = BilloirVertex)
      /\ InIteration(f) => f.billoirVertex = SumsOfIteration(f)

\* C16 witness: the second iteration of a fit of two tracks has linearized
\* both, with running estimates that the first iteration moved away from the
\* tracks' own parameters and with finite deltaQ.
RunningMomentaWitness ==
  \E f \in Frames :
    /\ f.pc = "solve" /\ f.nIter = 1 /\ f.nTracks = 2
    /\ Len(f.trackMomenta) = 2 /\ Len(f.billoirTracks) = 2
    /\ \A i \in 1..2 :
         /\ f.trackMomenta[i] # InitialMomentum(f.paramVector[i])
         /\ \A j \in 1..3 : IsFinite(f.trackMomenta[i][j])
         /\ \A j \in 1..5 : IsFinite(f.billoirTracks[i].deltaQ[j])
    /\ f.billoirVertex # BilloirVertex

====
